---- MODULE Spec2Model ----
(***************************************************************************)
(* Echo-Chat-Systems/Api: the admin challenge/response authentication      *)
(* handler (api/ws_workers/admin_worker.py) as driven by the per-          *)
(* connection receive loop (api/ws_workers/ws_worker.py).                  *)
(*                                                                         *)
(* A connection is a WebSocket object; the two process-wide dictionaries   *)
(* `admins` and `waitlist` are keyed by it.  Time is datetime.now(), read  *)
(* as an integer number of seconds that never runs backwards.              *)
(*                                                                         *)
(* A handler runs on its connection's coroutine.  The only await at which  *)
(* it waits for the client is receive_bytes in _auth, so _auth is two      *)
(* steps (AuthStart, then AuthRespond, AuthRespondText or AuthDisconnect)  *)
(* and every other handler is one; the sends in between yield to other     *)
(* connections, whose handlers read and write other keys only.             *)
(*                                                                         *)
(* Four more specifications share the variables: SpecHandler (the handler  *)
(* over a failure map that already holds a record), SpecFraming (the       *)
(* receive loop of WsWorker.run on every kind of frame), SpecAdminUsers    *)
(* (get_users and delete_user over a table of users) and SpecStore (the    *)
(* database handlers of api/db/handlers and the HTTP verify endpoint).     *)
(* SpecIsolation and SpecOrdered start the handler from other failure      *)
(* maps, SpecPrecedence runs the receive loop on two connections, and      *)
(* SpecConcurrentDelete runs delete_user on every connection at once.      *)
(***************************************************************************)
EXTENDS Integers, Sequences, FiniteSets, TLC

\* ------------------------------------------------------------- bounds
NConns == 2            \* connection identities in the pool
MaxTime == 2           \* the clock runs from 0 to MaxTime
NTokens == 2           \* distinct values token_bytes(32) may return
MaxRecord == 2         \* longest failure record drawn as a handler input
NUsers == 2            \* user ids (UUIDs) that exist or may be asked for
NTokenIds == 2         \* rows secured.tokens may come to hold
NCodes == 2            \* distinct values token_urlsafe(256) may return
MaxPage == 1           \* largest page and page_size a client asks for

Conns == 1..NConns
Tokens == 1..NTokens
UserIds == 1..NUsers
TokenIds == 1..NTokenIds
CodeStrings == 1..NCodes

\* ------------------------------------------------------------- CONFIG.auth
\* CfAuth declares __slots__, so these are the only attributes an instance has.
CfAuthSlots ==
    {"secret_key", "key_expires", "key_size", "fail_wait_time",
     "max_fail_attempts", "fail_lock_time", "admin_auth_timeout"}

\* hasattr(CONFIG.auth, name): reading any other name raises AttributeError.
HasAttr(name) == name \in CfAuthSlots

\* Values the settings file gives the attributes the admin worker reads.
fail_wait_time == 1
max_fail_attempts == 2
fail_lock_time == 2
admin_auth_timeout == 1

\* ------------------------------------------------------------- crypto
\* md5(token).digest(): distinct tokens of the model have distinct digests,
\* and no token is its own digest.
Md5(t) == (3 * t + 1) % 11


\* Every byte string a client may answer with: all digests and a non-digest.
Responses == {Md5(t) : t \in Tokens} \cup {0}

\* ------------------------------------------------------------- frames
JsonFrame(text) == [type |-> "json", json |-> text, bytes |-> ""]
BytesFrame(b) == [type |-> "bytes", json |-> "", bytes |-> b]

\* rsa.encrypt(token, owner_public_key) pads the token with fresh random
\* bytes, so the ciphertext is not a function of the token: the challenge
\* frame is recorded as an opaque ciphertext.
Challenge == BytesFrame("rsa.encrypt(token)")

WaitError == JsonFrame("{\"error\": \"You must wait before trying again.\"}")
AuthFailed ==
    JsonFrame("{\"target\": \"admin\", \"data\": {\"message\": \"Authentication failed.\"}}")
Authenticated == JsonFrame("{\"message\": \"Authenticated.\"}")
NotAuthenticated == JsonFrame("{\"error\": \"Not authenticated.\"}")
LogoffSuccess == JsonFrame("{\"action\": \"logoff\", \"data\": {\"success\": true}}")
InvalidActionError == JsonFrame("{\"error\": \"Invalid action.\"}")

\* ------------------------------------------------------------- state
VARIABLES
    now,        \* datetime.now()
    admins,     \* admins: dict[WebSocket, datetime]
    waitlist,   \* waitlist: dict[WebSocket, list[datetime]]
    pc,         \* where each connection's coroutine stands
    token,      \* the local `token` of a running _auth, 0 when none
    sent,       \* frames sent to the connection by its current/last handler
    raised,     \* the exception that escaped the connection's handler
    users,      \* table users: the ids of its rows
    codes,      \* table secured.verification_codes
    tokens,     \* table secured.tokens
    ret,        \* how the last database or HTTP call ended
    deleting    \* the id a running UsersHandler.delete found, 0 when none

\* The database, and the local of the call that runs across an await.
dbvars == <<users, codes, tokens, ret, deleting>>
vars == <<now, admins, waitlist, pc, token, sent, raised, users, codes, tokens,
          ret, deleting>>

\* dict helpers
Put(d, k, v) == (k :> v) @@ d
DelAll(d, k) == [x \in {} |-> 0]
Del(d, k) == [x \in (DOMAIN d) \ {k} |-> d[x]]
Empty == [x \in {} |-> 0]

Max(a, b) == IF a >= b THEN a ELSE b

\* ------------------------------------------------------------- _auth
\* The index of the entry the gate reads: max(len(record) - 1, 0), 0-based.
GateIndex0(rec) == 0
GateIndex(rec) == Max(Len(rec) - 1, 0)

\* Lines 84-86: the client is on the waitlist and may not try again yet.
MustWaitOnFirst(wl, c, t) == c \in DOMAIN wl /\ t < wl[c][1]
MustWait(wl, c, t) == c \in DOMAIN wl /\ t < wl[c][GateIndex(wl[c]) + 1]

\* Line 128: the expiry stored for a freshly authenticated connection.
AdminExpiryNoTimeout(t) == t
AdminExpiry(t) == t + admin_auth_timeout

\* Line 111: the response is compared with md5(token).digest().
DigestMatches(tok, resp) == resp = Md5(tok)

\* Lines 118-119: a connection that has already failed max_fail_attempts
\* times gets the lock time appended to its record.
LockedRecordReplaced(rec, t) == <<t + fail_lock_time>>
LockedRecord(rec, t) == Append(rec, t + fail_lock_time)

\* Lines 83-99: the gate, then the challenge is sent and the handler awaits
\* the response.
AuthStart(c) ==
    /\ pc[c] = "idle"
    /\ IF MustWait(waitlist, c, now)
       THEN /\ sent' = [sent EXCEPT ![c] = <<WaitError>>]
            /\ UNCHANGED <<pc, token>>
       ELSE /\ \E t \in Tokens : token' = [token EXCEPT ![c] = t]
            /\ sent' = [sent EXCEPT ![c] = <<Challenge>>]
            /\ pc' = [pc EXCEPT ![c] = "waiting"]
    /\ UNCHANGED <<now, admins, waitlist, raised>>

\* Lines 104-131: the response arrives.  CONFIG.auth.fail_timeout is read
\* after the failure frame went out; CfAuth has no such attribute.
AuthRespond(c, resp) ==
    /\ pc[c] = "waiting"
    /\ token' = [token EXCEPT ![c] = 0]
    /\ IF ~DigestMatches(token[c], resp)
       THEN /\ sent' = [sent EXCEPT ![c] = Append(@, AuthFailed)]
            /\ UNCHANGED admins
            /\ IF c \in DOMAIN waitlist /\ Len(waitlist[c]) >= max_fail_attempts
               THEN /\ waitlist' = [waitlist EXCEPT ![c] = LockedRecord(@, now)]
                    /\ pc' = [pc EXCEPT ![c] = "idle"]
                    /\ UNCHANGED raised
               ELSE IF HasAttr("fail_timeout")
                    THEN /\ waitlist' =
                              IF c \in DOMAIN waitlist
                              THEN [waitlist EXCEPT ![c] = Append(@, now + fail_wait_time)]
                              ELSE Put(waitlist, c, <<now + fail_wait_time>>)
                         /\ pc' = [pc EXCEPT ![c] = "idle"]
                         /\ UNCHANGED raised
                    ELSE /\ raised' = [raised EXCEPT ![c] = "AttributeError"]
                         /\ pc' = [pc EXCEPT ![c] = "crashed"]
                         /\ UNCHANGED waitlist
       ELSE /\ admins' = Put(admins, c, AdminExpiry(now))
            /\ sent' = [sent EXCEPT ![c] = Append(@, Authenticated)]
            /\ pc' = [pc EXCEPT ![c] = "idle"]
            /\ UNCHANGED <<waitlist, raised>>
    /\ UNCHANGED now

\* Line 106: the frame that arrives is a text frame.  receive_bytes reads
\* message["bytes"], which the message of a text frame does not have; the
\* KeyError is not a WebSocketDisconnect, so it leaves _auth, handle_message
\* and direct_message and ends the receive loop.
AuthRespondText(c) ==
    /\ pc[c] = "waiting"
    /\ token' = [token EXCEPT ![c] = 0]
    /\ raised' = [raised EXCEPT ![c] = "KeyError"]
    /\ pc' = [pc EXCEPT ![c] = "crashed"]
    /\ UNCHANGED <<now, admins, waitlist, sent>>

\* Lines 105-108: WebSocketDisconnect while awaiting the response; the
\* handler returns and the receive loop ends on the closed socket.
AuthDisconnectCountsAsFailure(c) ==
    /\ pc[c] = "waiting"
    /\ pc' = [pc EXCEPT ![c] = "closed"]
    /\ token' = [token EXCEPT ![c] = 0]
    /\ waitlist' = Put(waitlist, c, <<now + fail_wait_time>>)
    /\ UNCHANGED <<now, admins, sent, raised>>
AuthDisconnect(c) ==
    /\ pc[c] = "waiting"
    /\ pc' = [pc EXCEPT ![c] = "closed"]
    /\ token' = [token EXCEPT ![c] = 0]
    /\ UNCHANGED <<now, admins, waitlist, sent, raised>>

\* ------------------------------------------------------------- _logoff
\* Line 146: the only test _logoff makes is membership in `admins`.
LogoffRefusedInverted(adm, c) == c \in DOMAIN adm
LogoffRefused(adm, c) == c \notin DOMAIN adm

\* Lines 145-162.  `del waitlist[self.connection]` raises KeyError when the
\* connection has no failure record; `admins` has already lost the entry.
Logoff(c) ==
    /\ pc[c] = "idle"
    /\ IF LogoffRefused(admins, c)
       THEN /\ sent' = [sent EXCEPT ![c] = <<NotAuthenticated>>]
            /\ UNCHANGED <<admins, waitlist, pc, raised>>
       ELSE /\ admins' = Del(admins, c)
            /\ IF c \in DOMAIN waitlist
               THEN /\ waitlist' = Del(waitlist, c)
                    /\ sent' = [sent EXCEPT ![c] = <<LogoffSuccess>>]
                    /\ UNCHANGED <<pc, raised>>
               ELSE /\ raised' = [raised EXCEPT ![c] = "KeyError"]
                    /\ pc' = [pc EXCEPT ![c] = "crashed"]
                    /\ sent' = [sent EXCEPT ![c] = <<>>]
                    /\ UNCHANGED waitlist
    /\ UNCHANGED <<now, token>>

\* Lines 198-207: _get_user has no body.
GetUser(c) ==
    /\ pc[c] = "idle"
    /\ sent' = [sent EXCEPT ![c] = <<>>]
    /\ UNCHANGED <<now, admins, waitlist, pc, token, raised>>

\* Lines 66-69: the default arm of the match.
InvalidActionForgetsAdmin(c) ==
    /\ pc[c] = "idle"
    /\ sent' = [sent EXCEPT ![c] = <<InvalidActionError>>]
    /\ admins' = Del(admins, c)
    /\ UNCHANGED <<now, waitlist, pc, token, raised>>
InvalidAction(c) ==
    /\ pc[c] = "idle"
    /\ sent' = [sent EXCEPT ![c] = <<InvalidActionError>>]
    /\ UNCHANGED <<now, admins, waitlist, pc, token, raised>>

\* The action names a client may send to the admin handler.
AdminActions == {"auth", "logoff", "get_user", "bogus"}

\* Lines 42-69: AdminWorker.handle_message, called for one received message.
HandleMessageOneAtATime(c, action) ==
    /\ \A d \in Conns : pc[d] # "waiting"
    /\ CASE action = "auth" -> AuthStart(c)
         [] action = "logoff" -> Logoff(c)
         [] action = "get_user" -> GetUser(c)
         [] OTHER -> InvalidAction(c)
HandleMessage(c, action) ==
    CASE action = "auth" -> AuthStart(c)
      [] action = "logoff" -> Logoff(c)
      [] action = "get_user" -> GetUser(c)
      [] OTHER -> InvalidAction(c)

\* ------------------------------------------------------------- connections
\* ws_connect: a new WebSocket is accepted and its receive loop started.  The
\* identities form a finite pool; one is handed out again only when neither
\* dictionary still holds it as a key (a live key keeps its object alive, so
\* no new WebSocket can be equal to it).
Accept(c) ==
    /\ pc[c] \in {"closed", "crashed"}
    /\ c \notin DOMAIN admins
    /\ c \notin DOMAIN waitlist
    /\ pc' = [pc EXCEPT ![c] = "idle"]
    /\ sent' = [sent EXCEPT ![c] = <<>>]
    /\ raised' = [raised EXCEPT ![c] = "none"]
    /\ UNCHANGED <<now, admins, waitlist, token>>

\* WsWorker.run, lines 78-82: WebSocketDisconnect while awaiting a message.
Disconnect(c) ==
    /\ pc[c] = "idle"
    /\ pc' = [pc EXCEPT ![c] = "closed"]
    /\ UNCHANGED <<now, admins, waitlist, token, sent, raised>>

\* The wall clock advances.
Tick ==
    /\ now < MaxTime
    /\ now' = now + 1
    /\ UNCHANGED <<admins, waitlist, pc, token, sent, raised>>

\* ------------------------------------------------------------- specifications
\* No call made yet.
NoCall == [call |-> "none", out |-> "none", n |-> 0, exc |-> ""]

\* The database with empty tables.
EmptyStore ==
    /\ users = {}
    /\ codes = {}
    /\ tokens = {}
    /\ ret = NoCall
    /\ deleting = [c \in Conns |-> 0]

Init ==
    /\ now = 0
    /\ admins = Empty
    /\ waitlist = Empty
    /\ pc = [c \in Conns |-> "closed"]
    /\ token = [c \in Conns |-> 0]
    /\ sent = [c \in Conns |-> <<>>]
    /\ raised = [c \in Conns |-> "none"]
    /\ EmptyStore

Next ==
    \/ \E c \in Conns : Accept(c) /\ UNCHANGED dbvars
    \/ \E c \in Conns, a \in AdminActions : HandleMessage(c, a) /\ UNCHANGED dbvars
    \/ \E c \in Conns, r \in Responses : AuthRespond(c, r) /\ UNCHANGED dbvars
    \/ \E c \in Conns : AuthRespondText(c) /\ UNCHANGED dbvars
    \/ \E c \in Conns : AuthDisconnect(c) /\ UNCHANGED dbvars
    \/ \E c \in Conns : Disconnect(c) /\ UNCHANGED dbvars
    \/ Tick /\ UNCHANGED dbvars

Spec == Init /\ [][Next]_vars

\* The handlers applied to a failure map that already holds a record: the
\* record of connection 1 is drawn from every non-empty sequence of at most
\* MaxRecord timestamps, the connection being open and idle.
Records == UNION {[1..n -> 0..MaxTime] : n \in 1..MaxRecord}

InitHandler ==
    /\ now = 0
    /\ admins = Empty
    /\ \E rec \in Records : waitlist = (1 :> rec)
    /\ pc = [c \in Conns |-> IF c = 1 THEN "idle" ELSE "closed"]
    /\ token = [c \in Conns |-> 0]
    /\ sent = [c \in Conns |-> <<>>]
    /\ raised = [c \in Conns |-> "none"]
    /\ EmptyStore

\* Connection 1 is the only one served: its messages, responses and
\* disconnects, and the clock.
NextHandler ==
    \/ \E a \in AdminActions : HandleMessage(1, a) /\ UNCHANGED dbvars
    \/ \E r \in Responses : AuthRespond(1, r) /\ UNCHANGED dbvars
    \/ AuthRespondText(1) /\ UNCHANGED dbvars
    \/ AuthDisconnect(1) /\ UNCHANGED dbvars
    \/ Disconnect(1) /\ UNCHANGED dbvars
    \/ Tick /\ UNCHANGED dbvars

SpecHandler == InitHandler /\ [][NextHandler]_vars

\* The handlers applied to a record as _auth leaves it: each timestamp later
\* than the one before.
Increasing(rec) == \A i \in 1..(Len(rec) - 1) : rec[i] < rec[i + 1]
OrderedRecords == {rec \in Records : Increasing(rec)}

InitOrdered ==
    /\ now = 0
    /\ admins = Empty
    /\ \E rec \in OrderedRecords : waitlist = (1 :> rec)
    /\ pc = [c \in Conns |-> IF c = 1 THEN "idle" ELSE "closed"]
    /\ token = [c \in Conns |-> 0]
    /\ sent = [c \in Conns |-> <<>>]
    /\ raised = [c \in Conns |-> "none"]
    /\ EmptyStore

SpecOrdered == InitOrdered /\ [][NextHandler]_vars

\* The same handlers on connection 1 while connection 2, open as well, holds
\* an admin entry and a failure record of its own.
InitIsolation ==
    /\ now = 0
    /\ admins = (2 :> AdminExpiry(0))
    /\ \E r1 \in Records, r2 \in Records : waitlist = (1 :> r1) @@ (2 :> r2)
    /\ pc = [c \in Conns |-> IF c \in {1, 2} THEN "idle" ELSE "closed"]
    /\ token = [c \in Conns |-> 0]
    /\ sent = [c \in Conns |-> <<>>]
    /\ raised = [c \in Conns |-> "none"]
    /\ EmptyStore

SpecIsolation == InitIsolation /\ [][NextHandler]_vars

\* ------------------------------------------------------------- WsWorker
\* JSON field values: absent from the object, null, a number, a string or an
\* object.
Missing == [kind |-> "missing", str |-> ""]
Null == [kind |-> "null", str |-> ""]
Number == [kind |-> "number", str |-> ""]
Str(s) == [kind |-> "str", str |-> s]
Dict == [kind |-> "dict", str |-> ""]

\* The target names a client may send.
TargetNames == {"", "ping", "users", "admin", "x"}

\* A top-level JSON object: its "target" and "data" fields, the "action" and
\* "data" fields of the inner object when "data" is an object, and whether
\* it has any other key.  A field the loop cannot come to read is left out:
\* the inner fields unless the target is a string and "data" an object, the
\* inner "data" unless the action is a string, another key unless it is the
\* only one.
Objects ==
    {o \in [target : {Missing, Null, Number} \cup {Str(t) : t \in TargetNames},
            data : {Missing, Null, Number, Dict},
            action : {Missing, Null, Number, Str("new")},
            inner : {Missing, Null, Number, Dict},
            other : BOOLEAN] :
        /\ (o.data # Dict \/ o.target.kind # "str")
              => (o.action = Missing /\ o.inner = Missing)
        /\ o.action.kind # "str" => o.inner = Missing
        /\ o.other => (o.target = Missing /\ o.data = Missing)}

NoObject == [target |-> Missing, data |-> Missing, action |-> Missing,
             inner |-> Missing, other |-> FALSE]

\* An inbound frame: binary, or text that is not JSON, or text holding a JSON
\* value.  For a string or a list, hasTarget says whether "target" occurs in
\* it (as a substring, as an element).
InFrames ==
    {[frame |-> "bytes", json |-> "", hasTarget |-> FALSE, obj |-> NoObject],
     [frame |-> "text", json |-> "invalid", hasTarget |-> FALSE, obj |-> NoObject]}
    \cup {[frame |-> "text", json |-> k, hasTarget |-> FALSE, obj |-> NoObject] :
             k \in {"null", "bool", "number"}}
    \cup {[frame |-> "text", json |-> k, hasTarget |-> h, obj |-> NoObject] :
             k \in {"string", "list"}, h \in BOOLEAN}
    \cup {[frame |-> "text", json |-> "object", hasTarget |-> FALSE, obj |-> o] :
             o \in Objects}

InvalidData == JsonFrame("{\"error\": \"Invalid data.\"}")
NoDataProvided == JsonFrame("{\"error\": \"No data provided.\"}")
NoTarget == JsonFrame("{\"error\": \"No target provided or target invalid.\"}")
NoDataInvalid == JsonFrame("{\"error\": \"No data provided or data invalid.\"}")
Pong == JsonFrame("{\"target\": \"pong\"}")
NoAction == JsonFrame("{\"error\": \"No action provided or action invalid.\"}")
TargetNotFound == JsonFrame("{\"error\": \"Target not found.\"}")

\* What one pass of the loop ends in: the frames sent and the exception that
\* escapes, "none" when the loop goes on.
Replies(frames) == [reply |-> frames, raise |-> "none"]
Raises(exc) == [reply |-> <<>>, raise |-> exc]

JSONDecodeError == "json.JSONDecodeError"
NotIterable == "TypeError: argument of type is not iterable"
BadIndex == "TypeError: indices must be integers"
MissingArgument ==
    "TypeError: handle_message() missing 1 required positional argument: 'data'"

\* verify_field, lines 35-44, on the value the field has in a dict.
VerifyFieldAnyType(v, type) == v.kind \notin {"missing", "null"}
VerifyField(v, type) ==
    /\ v.kind # "missing"
    /\ v.kind # "null"
    /\ v.kind = type

\* Line 92: content == {}.
IsEmptyNever(f) == FALSE
IsEmpty(f) ==
    /\ f.json = "object"
    /\ f.obj.target = Missing
    /\ f.obj.data = Missing
    /\ ~f.obj.other

\* WsWorker.workers, lines 53-55: the registered targets.
Workers == {"users"}

\* direct_message, lines 153-161.  The values of `workers` are the worker
\* classes, so handle_message is called as a plain function with `data` as
\* its only argument.
DirectMessageCallsAny(target) == Raises(MissingArgument)
DirectMessage(target) ==
    IF target \notin Workers
    THEN Replies(<<TargetNotFound>>)
    ELSE Raises(MissingArgument)

\* Lines 116-143: the ping answer, then the checks of the inner object, then
\* the dispatch.
AfterEnvelopeDataFirst(o) ==
    IF o.target.str = "ping" THEN Replies(<<Pong>>)
    ELSE IF ~VerifyField(o.inner, "dict") THEN Replies(<<NoDataInvalid>>)
    ELSE IF ~VerifyField(o.action, "str") THEN Replies(<<NoAction>>)
    ELSE DirectMessage(o.target.str)
AfterEnvelope(o) ==
    IF o.target.str = "ping" THEN Replies(<<Pong>>)
    ELSE IF ~VerifyField(o.action, "str") THEN Replies(<<NoAction>>)
    ELSE IF ~VerifyField(o.inner, "dict") THEN Replies(<<NoDataInvalid>>)
    ELSE DirectMessage(o.target.str)

\* Lines 108-114: the check of the top-level "data", made once the target
\* is known to be a string and before the target is compared with "ping".
AfterTargetPingFirst(o) ==
    IF o.target.str = "ping" THEN Replies(<<Pong>>)
    ELSE IF ~VerifyField(o.data, "dict") THEN Replies(<<NoDataInvalid>>)
    ELSE AfterEnvelope(o)
AfterTarget(o) ==
    IF ~VerifyField(o.data, "dict") THEN Replies(<<NoDataInvalid>>)
    ELSE AfterEnvelope(o)

\* Lines 77-143: one pass of the loop on a received frame.  receive_json
\* reads message["text"], which a binary frame does not have (KeyError), and
\* hands the text to json.loads.  verify_field applies `in` and then
\* indexing to whatever value json.loads returned.
RunOnceDataFirst(f) ==
    IF f.frame = "bytes" THEN Replies(<<InvalidData>>)
    ELSE IF f.json = "invalid" THEN Raises(JSONDecodeError)
    ELSE IF IsEmpty(f) THEN Replies(<<NoDataProvided>>)
    ELSE IF f.json \in {"null", "bool", "number"} THEN Raises(NotIterable)
    ELSE IF f.json \in {"string", "list"}
         THEN IF f.hasTarget THEN Raises(BadIndex) ELSE Replies(<<NoTarget>>)
    ELSE IF ~VerifyField(f.obj.data, "dict") THEN Replies(<<NoDataInvalid>>)
    ELSE IF ~VerifyField(f.obj.target, "str") THEN Replies(<<NoTarget>>)
    ELSE AfterTarget(f.obj)
RunOnce(f) ==
    IF f.frame = "bytes" THEN Replies(<<InvalidData>>)
    ELSE IF f.json = "invalid" THEN Raises(JSONDecodeError)
    ELSE IF IsEmpty(f) THEN Replies(<<NoDataProvided>>)
    ELSE IF f.json \in {"null", "bool", "number"} THEN Raises(NotIterable)
    ELSE IF f.json \in {"string", "list"}
         THEN IF f.hasTarget THEN Raises(BadIndex) ELSE Replies(<<NoTarget>>)
    ELSE IF ~VerifyField(f.obj.target, "str") THEN Replies(<<NoTarget>>)
    ELSE AfterTarget(f.obj)

\* The loop receives a frame and serves it; an exception that escapes ends
\* the loop.
Receive(c, f) ==
    /\ pc[c] = "idle"
    /\ sent' = [sent EXCEPT ![c] = RunOnce(f).reply]
    /\ raised' = [raised EXCEPT ![c] = RunOnce(f).raise]
    /\ pc' = [pc EXCEPT ![c] = IF RunOnce(f).raise = "none" THEN "idle" ELSE "crashed"]
    /\ UNCHANGED <<now, admins, waitlist, token>>

\* The receive loop of every connection, as WsWorker.run routes its frames.
NextFraming ==
    \/ \E c \in Conns : Accept(c) /\ UNCHANGED dbvars
    \/ \E c \in Conns, f \in InFrames : Receive(c, f) /\ UNCHANGED dbvars
    \/ \E c \in Conns : Disconnect(c) /\ UNCHANGED dbvars

SpecFraming == Init /\ [][NextFraming]_vars

\* The receive loops of connections 1 and 2 alone.
NextPrecedence ==
    \/ \E c \in {1, 2} : Accept(c) /\ UNCHANGED dbvars
    \/ \E c \in {1, 2}, f \in InFrames : Receive(c, f) /\ UNCHANGED dbvars
    \/ \E c \in {1, 2} : Disconnect(c) /\ UNCHANGED dbvars

SpecPrecedence == Init /\ [][NextPrecedence]_vars

\* ------------------------------------------------------------- admin: users
UserDoesNotExistError == JsonFrame("{\"error\": \"User does not exist.\"}")
DeleteSuccess == JsonFrame("{\"action\": \"delete_user\", \"data\": {\"success\": true}}")

\* {"action": "users", "data": [...]}: the public projections, by user id.
UsersFrame(list) ==
    [type |-> "json", json |-> "{\"action\": \"users\", \"data\": [...]}",
     bytes |-> "", data |-> list]

\* The "data" a delete_user message may carry: none, an object without "id",
\* an "id" that is no UUID, the UUID of a user id.
DeleteInputs ==
    {[kind |-> k, id |-> 0] : k \in {"nodata", "noid", "badid"}}
    \cup {[kind |-> "uuid", id |-> u] : u \in UserIds}

\* DeleteUserInput(**data) accepts the message.
DeleteUserInputValid(in) == in.kind = "uuid"

\* The values "page" and "page_size" may have: absent, a string, an integer.
PageValues ==
    {[kind |-> k, n |-> 0] : k \in {"missing", "str"}}
    \cup {[kind |-> "int", n |-> k] : k \in (-1)..MaxPage}

GetUsersInputs == [page : PageValues, page_size : PageValues]

\* GetUsersInput(**data) accepts the message.
GetUsersInputValid(in) ==
    /\ in.page.kind = "int"
    /\ in.page.n >= 0
    /\ in.page_size.kind = "int"
    /\ in.page_size.n > 0

\* UsersHandler.id_exists: SELECT 1 FROM users WHERE id = %s.
IdExists(tbl, id) == id \in tbl

\* UsersHandler.delete, line 188: DELETE FROM users WHERE id = %s.
DeleteStatementKeeps(tbl, id) == tbl
DeleteStatement(tbl, id) == tbl \ {id}

\* The rows of users, newest first; ids are handed out in creation order.
RECURSIVE NewestFirst(_)
NewestFirst(tbl) ==
    IF tbl = {} THEN <<>>
    ELSE LET m == CHOOSE x \in tbl : \A y \in tbl : y <= x
         IN <<m>> \o NewestFirst(tbl \ {m})

Min(a, b) == IF a <= b THEN a ELSE b

\* UsersHandler.get: ORDER BY created_at DESC LIMIT page_size OFFSET
\* page * page_size.
GetPage(tbl, page, page_size) ==
    SubSeq(NewestFirst(tbl), page * page_size + 1,
           Min(Cardinality(tbl), page * page_size + page_size))

\* _get_users as a function of everything the worker could read: the admin
\* map, its connection, the table and the message.
GetUsersAdminsOnly(adm, c, tbl, in) ==
    IF c \notin DOMAIN adm THEN <<NotAuthenticated>>
    ELSE IF ~GetUsersInputValid(in) THEN <<InvalidData>>
    ELSE <<UsersFrame(GetPage(tbl, in.page.n, in.page_size.n))>>
GetUsersReply(adm, c, tbl, in) ==
    IF ~GetUsersInputValid(in) THEN <<InvalidData>>
    ELSE <<UsersFrame(GetPage(tbl, in.page.n, in.page_size.n))>>

\* Lines 164-196.
GetUsers(c, in) ==
    /\ pc[c] = "idle"
    /\ sent' = [sent EXCEPT ![c] = GetUsersReply(admins, c, users, in)]
    /\ UNCHANGED <<now, admins, waitlist, pc, token, raised>>
    /\ UNCHANGED dbvars

\* What _delete_user answers before the DELETE statement, <<>> when it goes
\* on to it: lines 219-226 and 229-237 with UsersHandler.delete, 179-181.
DeleteRefusalUnvalidated(adm, c, tbl, in) ==
    IF ~IdExists(tbl, in.id) THEN <<UserDoesNotExistError>> ELSE <<>>
DeleteRefusal(adm, c, tbl, in) ==
    IF ~DeleteUserInputValid(in) THEN <<InvalidData>>
    ELSE IF ~IdExists(tbl, in.id) THEN <<UserDoesNotExistError>>
    ELSE <<>>

\* Lines 219-231 and user_handler.py 179-181: the message is validated and
\* the existence check made; the handler then awaits the DELETE statement.
DeleteUserStart(c, in) ==
    /\ pc[c] = "idle"
    /\ sent' = [sent EXCEPT ![c] = DeleteRefusal(admins, c, users, in)]
    /\ IF DeleteRefusal(admins, c, users, in) = <<>>
       THEN /\ pc' = [pc EXCEPT ![c] = "deleting"]
            /\ deleting' = [deleting EXCEPT ![c] = in.id]
       ELSE UNCHANGED <<pc, deleting>>
    /\ UNCHANGED <<now, admins, waitlist, token, raised>>
    /\ UNCHANGED <<users, codes, tokens, ret>>

\* user_handler.py 184-193 and lines 239-245: the DELETE statement, then the
\* success frame.
DeleteUserFinish(c) ==
    /\ pc[c] = "deleting"
    /\ users' = DeleteStatement(users, deleting[c])
    /\ sent' = [sent EXCEPT ![c] = <<DeleteSuccess>>]
    /\ pc' = [pc EXCEPT ![c] = "idle"]
    /\ deleting' = [deleting EXCEPT ![c] = 0]
    /\ UNCHANGED <<now, admins, waitlist, token, raised>>
    /\ UNCHANGED <<codes, tokens, ret>>

\* The admin handler on connection 1, which is open: it may authenticate,
\* and it sends user actions before or after.  The table holds any of the
\* user ids.
InitAdminUsers ==
    /\ now = 0
    /\ admins = Empty
    /\ waitlist = Empty
    /\ pc = [c \in Conns |-> IF c = 1 THEN "idle" ELSE "closed"]
    /\ token = [c \in Conns |-> 0]
    /\ sent = [c \in Conns |-> <<>>]
    /\ raised = [c \in Conns |-> "none"]
    /\ users \in SUBSET UserIds
    /\ codes = {}
    /\ tokens = {}
    /\ ret = NoCall
    /\ deleting = [c \in Conns |-> 0]

NextAdminUsers ==
    \/ AuthStart(1) /\ UNCHANGED dbvars
    \/ \E r \in Responses : AuthRespond(1, r) /\ UNCHANGED dbvars
    \/ AuthRespondText(1) /\ UNCHANGED dbvars
    \/ \E in \in GetUsersInputs : GetUsers(1, in)
    \/ \E in \in DeleteInputs : DeleteUserStart(1, in)
    \/ DeleteUserFinish(1)
    \/ Disconnect(1) /\ UNCHANGED dbvars

SpecAdminUsers == InitAdminUsers /\ [][NextAdminUsers]_vars

\* delete_user on every connection at once: each handler is a coroutine of
\* its own and the two awaits of UsersHandler.delete are separate steps.
InitConcurrentDelete ==
    /\ now = 0
    /\ admins = Empty
    /\ waitlist = Empty
    /\ pc = [c \in Conns |-> "idle"]
    /\ token = [c \in Conns |-> 0]
    /\ sent = [c \in Conns |-> <<>>]
    /\ raised = [c \in Conns |-> "none"]
    /\ users \in SUBSET UserIds
    /\ codes = {}
    /\ tokens = {}
    /\ ret = NoCall
    /\ deleting = [c \in Conns |-> 0]

NextConcurrentDelete ==
    \/ \E c \in Conns, in \in DeleteInputs : DeleteUserStart(c, in)
    \/ \E c \in Conns : DeleteUserFinish(c)

SpecConcurrentDelete == InitConcurrentDelete /\ [][NextConcurrentDelete]_vars

\* ------------------------------------------------------------- database calls
\* How a call ended: it returned a user, a token or a code (n), it returned
\* None, it raised exc, it never returns, or it is an HTTP response with
\* status n.
Returned(call, what, n) == [call |-> call, out |-> what, n |-> n, exc |-> ""]
ReturnedNone(call) == [call |-> call, out |-> "None", n |-> 0, exc |-> ""]
Raised(call, exc) == [call |-> call, out |-> "raises", n |-> 0, exc |-> exc]
NeverReturns(call, n) == [call |-> call, out |-> "loops", n |-> n, exc |-> ""]
Status(call, n) == [call |-> call, out |-> "status", n |-> n, exc |-> ""]

\* The email address of user u is written u: an address resolves to the user
\* of the same number, when that user exists.
Emails == UserIds

\* CONFIG.user_security.verification_expires_days/hours, as one duration.
verification_expires == 1

\* SecureHandler.new_token: a row with the given owner and type; the
\* database hands out the id.  token_type defaults to 0.
DefaultTokenType == 0
NewToken(u) ==
    /\ u \in users
    /\ Cardinality(tokens) < NTokenIds
    /\ LET id == Cardinality(tokens) + 1
       IN /\ tokens' = tokens \cup {[id |-> id, user |-> u, type |-> DefaultTokenType]}
          /\ ret' = Returned("new_token", "token", id)
    /\ UNCHANGED <<now, admins, waitlist, pc, token, sent, raised>>
    /\ UNCHANGED <<users, codes, deleting>>

\* make_verification_code, lines 290-305: the loop is left when the SELECT
\* by user_id finds no row.  Nothing in the loop changes the table.
LoopExits(tbl, u) == ~\E row \in tbl : row.user = u

\* Lines 281-334.  The DELETE of the user's rows and the INSERT of the new
\* row come after the loop.
MakeVerificationCode(u, code) ==
    /\ u \in users
    /\ IF LoopExits(codes, u)
       THEN /\ codes' = {row \in codes : row.user # u}
                        \cup {[user |-> u, code |-> code,
                               expires |-> now + verification_expires]}
            /\ ret' = Returned("make_verification_code", "code", code)
       ELSE /\ ret' = NeverReturns("make_verification_code", u)
            /\ UNCHANGED codes
    /\ UNCHANGED <<now, admins, waitlist, pc, token, sent, raised>>
    /\ UNCHANGED <<users, tokens, deleting>>

\* SecureHandler.get_token: DoesNotExist unless a row has the id.
ExistsToken(tbl, id) == \E t \in tbl : t.id = id
TokenOwner(tbl, id) == (CHOOSE t \in tbl : t.id = id).user

\* UsersHandler.email_get, lines 140-161: the user, or UserDoesNotExist.
EmailGet(tbl, email) ==
    IF email \in tbl
    THEN Returned("email_get", "user", email)
    ELSE Raised("email_get", "UserDoesNotExist")

\* UsersHandler.id_get, line 107: `with self.connection.cursor()` on the
\* cursor of an AsyncConnection, which is an asynchronous context manager
\* only; the statement raises before any query is made.
IdGet(tbl, id) ==
    Raised("id_get", "TypeError: 'AsyncCursor' object does not support the context manager protocol")

\* UsersHandler.session_verify, lines 333-350.
SessionVerifyResult(us, toks, email, id) ==
    IF ~ExistsToken(toks, id) THEN ReturnedNone("session_verify")
    ELSE LET actual == EmailGet(us, email)
             expected == IdGet(us, TokenOwner(toks, id))
         IN IF actual.out = "raises" THEN Raised("session_verify", actual.exc)
            ELSE IF expected.out = "raises" THEN Raised("session_verify", expected.exc)
            ELSE IF actual.n # expected.n THEN ReturnedNone("session_verify")
            ELSE Returned("session_verify", "user", actual.n)

SessionVerify(email, id) ==
    /\ ret' = SessionVerifyResult(users, tokens, email, id)
    /\ UNCHANGED <<now, admins, waitlist, pc, token, sent, raised>>
    /\ UNCHANGED <<users, codes, tokens, deleting>>

\* SecureHandler.get_password(self, user_id) as session_new calls it, line
\* 312: without the user id.
GetPasswordCall ==
    Raised("get_password", "TypeError: get_password() missing 1 required positional argument: 'user_id'")

\* UsersHandler.session_new, lines 304-316, up to the token: the exception
\* it raises, or the user a token is made for.  `correct` says whether the
\* password is the user's.
SessionNewResult(us, email, correct) ==
    IF email \notin us THEN Raised("session_new", "UserDoesNotExist")
    ELSE LET hashed == GetPasswordCall
         IN IF hashed.out = "raises" THEN Raised("session_new", hashed.exc)
            ELSE IF ~correct THEN Raised("session_new", "PasswordIncorrectException")
            ELSE Returned("session_new", "user", EmailGet(us, email).n)

SessionNew(email, correct) ==
    /\ LET res == SessionNewResult(users, email, correct)
       IN IF res.out = "raises"
          THEN ret' = res /\ UNCHANGED tokens
          ELSE /\ Cardinality(tokens) < NTokenIds
               /\ tokens' = tokens \cup {[id |-> Cardinality(tokens) + 1,
                                          user |-> res.n,
                                          type |-> DefaultTokenType]}
               /\ ret' = Returned("session_new", "token", Cardinality(tokens) + 1)
    /\ UNCHANGED <<now, admins, waitlist, pc, token, sent, raised>>
    /\ UNCHANGED <<users, codes, deleting>>

\* models/secure.py, TokenTypes: user = 1, bot = 2.
TokenTypes == {1, 2}
TokenTypeUser == 1

\* The last segment of the path of GET /users/verify/...: a code, which
\* token_urlsafe makes of letters, digits, "-" and "_", or the text
\* "<verification_code>".
PathSegments ==
    {[text |-> "code", code |-> k] : k \in CodeStrings}
    \cup {[text |-> "<verification_code>", code |-> 0]}

\* users_router.py line 52: the route path "/verify/<verification_code>"
\* holds no {parameter}, so it matches that very text only, and
\* verification_code (line 54) is a required query parameter.
RouteMatches(seg) == seg.text = "<verification_code>"

\* A GET without a query string.  No route matches: 404.  The route matches:
\* 422 for the missing parameter, the handler body is not entered.
VerifyUser(seg) ==
    /\ ret' = IF RouteMatches(seg)
              THEN Status("GET /users/verify", 422)
              ELSE Status("GET /users/verify", 404)
    /\ UNCHANGED <<now, admins, waitlist, pc, token, sent, raised>>
    /\ UNCHANGED <<users, codes, tokens, deleting>>

\* The database handlers and the HTTP endpoint over a table of users that
\* holds any of the user ids; no connection is open.
InitStore ==
    /\ now = 0
    /\ admins = Empty
    /\ waitlist = Empty
    /\ pc = [c \in Conns |-> "closed"]
    /\ token = [c \in Conns |-> 0]
    /\ sent = [c \in Conns |-> <<>>]
    /\ raised = [c \in Conns |-> "none"]
    /\ users \in SUBSET UserIds
    /\ codes = {}
    /\ tokens = {}
    /\ ret = NoCall
    /\ deleting = [c \in Conns |-> 0]

NextStore ==
    \/ \E u \in UserIds : NewToken(u)
    \/ \E u \in UserIds, code \in CodeStrings : MakeVerificationCode(u, code)
    \/ \E email \in Emails, id \in TokenIds : SessionVerify(email, id)
    \/ \E email \in Emails, correct \in BOOLEAN : SessionNew(email, correct)
    \/ \E seg \in PathSegments : VerifyUser(seg)
    \/ Tick /\ UNCHANGED dbvars

SpecStore == InitStore /\ [][NextStore]_vars

\* ------------------------------------------------------------- properties
\* The entry of a failure record appended most recently.
Last(rec) == rec[Len(rec)]

\* The length of a connection's failure record, 0 when it has none.
RecordLen(wl, c) == IF c \in DOMAIN wl THEN Len(wl[c]) ELSE 0

\* The bare failure message the admin tests expect.
BareAuthFailed == JsonFrame("{\"message\": \"Authentication failed.\"}")

\* C1: when the response to the issued challenge equals the digest of that
\* challenge, the connection's entry in `admins` becomes now +
\* admin_auth_timeout and the only frame sent after the challenge is
\* {"message": "Authenticated."}.
C1_AuthSuccess ==
    [][\A c \in Conns, r \in Responses :
          (AuthRespond(c, r) /\ r = Md5(token[c]))
          => /\ c \in DOMAIN admins'
             /\ admins'[c] = now + admin_auth_timeout
             /\ sent'[c] = <<Challenge, Authenticated>>]_vars

C1_Witness ==
    \E c \in Conns :
        /\ pc[c] = "idle"
        /\ sent[c] = <<Challenge, Authenticated>>
        /\ c \in DOMAIN admins
        /\ admins[c] = now + admin_auth_timeout

\* C2: every response that differs from the digest of the issued challenge is
\* answered with {"message": "Authentication failed."} and appends exactly
\* one timestamp to the connection's failure record, the first failure of a
\* connection included.
C2_FailureRecorded ==
    [][\A c \in Conns, r \in Responses :
          (AuthRespond(c, r) /\ r # Md5(token[c]))
          => /\ sent'[c] = <<Challenge, BareAuthFailed>>
             /\ RecordLen(waitlist', c) = RecordLen(waitlist, c) + 1]_vars

\* The first failure of a connection has happened.
C2_Witness ==
    \E c \in Conns :
        /\ Len(sent[c]) = 2
        /\ sent[c][2] = AuthFailed
        /\ c \notin DOMAIN waitlist

\* C3: a failed verification appends now + fail_lock_time when the record
\* already holds max_fail_attempts entries or more, and now + the failure
\* timeout when it holds fewer or none.
C3_LockoutEscalation ==
    [][\A c \in Conns, r \in Responses :
          (AuthRespond(c, r) /\ r # Md5(token[c]))
          => /\ c \in DOMAIN waitlist'
             /\ waitlist'[c] =
                   Append(IF c \in DOMAIN waitlist THEN waitlist[c] ELSE <<>>,
                          IF RecordLen(waitlist, c) >= max_fail_attempts
                          THEN now + fail_lock_time
                          ELSE now + fail_wait_time)]_vars

\* C4: an auth request is answered with the challenge exactly when the
\* connection has no failure record or the clock has reached the last
\* timestamp of the record; otherwise the only frame is the wait error and
\* `admins` and `waitlist` are unchanged.
C4_WaitlistGate ==
    [][\A c \in Conns :
          (pc[c] = "idle" /\ HandleMessage(c, "auth"))
          => IF c \notin DOMAIN waitlist \/ now >= Last(waitlist[c])
             THEN sent'[c] = <<Challenge>> /\ pc'[c] = "waiting"
             ELSE /\ sent'[c] = <<WaitError>>
                  /\ pc'[c] = "idle"
                  /\ admins' = admins
                  /\ waitlist' = waitlist]_vars

\* A request was refused although the first timestamp of the record had
\* passed: only the last one was still ahead.
C4_Witness ==
    \E c \in Conns :
        /\ sent[c] = <<WaitError>>
        /\ c \in DOMAIN waitlist
        /\ waitlist[c][1] <= now
        /\ now < Last(waitlist[c])

\* C5: after a response that differs from the digest the connection has no
\* entry in `admins`, whatever it had before.
C5_FailureUnauthenticates ==
    [][\A c \in Conns, r \in Responses :
          (AuthRespond(c, r) /\ r # Md5(token[c]))
          => c \notin DOMAIN admins']_vars

\* C6: a logoff on an entry of `admins` whose expiry has passed is answered
\* as a logoff of an unauthenticated connection.
C6_LazyExpiry ==
    [][\A c \in Conns :
          (HandleMessage(c, "logoff") /\ c \in DOMAIN admins /\ admins[c] < now)
          => sent'[c] = <<NotAuthenticated>>]_vars

\* C7: a logoff of a connection that has an entry in `admins` removes the
\* entry and the failure record and is answered with the logoff success
\* frame, also when the connection never failed.
C7_LogoffAuthenticated ==
    [][\A c \in Conns :
          (HandleMessage(c, "logoff") /\ c \in DOMAIN admins)
          => /\ c \notin DOMAIN admins'
             /\ c \notin DOMAIN waitlist'
             /\ sent'[c] = <<LogoffSuccess>>]_vars

\* C8: a logoff of a connection that has no entry in `admins` is answered
\* with {"error": "Not authenticated."} and changes neither dictionary.
C8_LogoffUnauthenticated ==
    [][\A c \in Conns :
          (HandleMessage(c, "logoff") /\ c \notin DOMAIN admins)
          => /\ sent'[c] = <<NotAuthenticated>>
             /\ admins' = admins
             /\ waitlist' = waitlist]_vars

C8_Witness ==
    \E c \in Conns :
        /\ pc[c] = "idle"
        /\ sent[c] = <<NotAuthenticated>>
        /\ c \notin DOMAIN admins

\* C9: no step but a logoff of the connection removes its failure record,
\* and every other step keeps the entries the record had, in their order; a
\* successful authentication leaves the record as it was.
C9_RecordOnlyClearedByLogoff ==
    [][\A c \in Conns :
          c \in DOMAIN waitlist
          => \/ /\ c \in DOMAIN waitlist'
                /\ Len(waitlist'[c]) >= Len(waitlist[c])
                /\ SubSeq(waitlist'[c], 1, Len(waitlist[c])) = waitlist[c]
             \/ /\ HandleMessage(c, "logoff")
                /\ c \in DOMAIN admins]_vars

\* A connection holding a failure record has just authenticated.
C9_Witness ==
    \E c \in Conns :
        /\ c \in DOMAIN waitlist
        /\ c \in DOMAIN admins
        /\ sent[c] = <<Challenge, Authenticated>>

\* C10: a disconnect while the handler awaits the response sends no frame,
\* adds no entry to `admins`, appends nothing to the failure record and
\* keeps no challenge, so the gate answers for the connection as before.
C10_DisconnectDuringChallenge ==
    [][\A c \in Conns :
          (pc[c] = "waiting" /\ pc'[c] = "closed")
          => /\ sent' = sent
             /\ admins' = admins
             /\ waitlist' = waitlist
             /\ raised' = raised
             /\ token'[c] = 0
             /\ MustWait(waitlist', c, now') = MustWait(waitlist, c, now)]_vars

C10_Witness ==
    \E c \in Conns :
        /\ pc[c] = "closed"
        /\ sent[c] = <<Challenge>>
        /\ token[c] = 0

\* A message with a string target, an object "data", a string "action" and
\* an inner object "data": what the loop hands to direct_message.
WellFormed(f, t) ==
    /\ f.json = "object"
    /\ f.obj.target = Str(t)
    /\ f.obj.data = Dict
    /\ f.obj.action.kind = "str"
    /\ f.obj.inner = Dict

\* The step is one of connection c, taken while its loop awaits a frame.
Served(c) ==
    /\ pc[c] = "idle"
    /\ <<pc[c], sent[c], raised[c]>> # <<pc'[c], sent'[c], raised'[c]>>

AdminMessages == {f \in InFrames : WellFormed(f, "admin")}
UsersMessages == {f \in InFrames : WellFormed(f, "users")}
UnregisteredMessages ==
    {f \in InFrames :
        \E t \in TargetNames \ (Workers \cup {"ping"}) : WellFormed(f, t)}
NonObjectFrames == {f \in InFrames : f.frame = "bytes" \/ f.json # "object"}
BarePing ==
    {f \in InFrames :
        /\ f.json = "object"
        /\ f.obj.target = Str("ping")
        /\ f.obj.data = Missing
        /\ ~f.obj.other}
EmptyObject == {f \in InFrames : f.json = "object" /\ f.obj = NoObject}
TargetInvalidObjects ==
    {f \in InFrames :
        /\ f.json = "object"
        /\ f.obj # NoObject
        /\ f.obj.target \in {Missing, Null, Number}}
EmptyTargetObjects ==
    {f \in InFrames : f.json = "object" /\ f.obj.target = Str("")}
DataInvalidObjects ==
    {f \in InFrames :
        /\ f.json = "object"
        /\ f.obj.target.kind = "str"
        /\ f.obj.data \in {Missing, Null, Number}}

\* C11: a well-formed message whose target is "admin" reaches the admin
\* handler: it is not answered with {"error": "Target not found."}.
C11_AdminTargetDispatched ==
    [][\A c \in Conns : Served(c) =>
          \A f \in AdminMessages :
              Receive(c, f) => sent'[c] # <<TargetNotFound>>]_vars

\* C12: a well-formed message for the registered target "users" is delivered
\* to the handle_message of the worker instance bound to the connection: the
\* call is made on an instance, so it does not fail for a missing argument
\* and the loop goes on.
C12_HandlerBoundToConnection ==
    [][\A c \in Conns : Served(c) =>
          \A f \in UsersMessages :
              Receive(c, f) => (raised'[c] # MissingArgument /\ pc'[c] = "idle")]_vars

\* C13: a message that reaches direct_message with a target that is not
\* registered is answered with exactly {"error": "Target not found."}, no
\* handler is called and the loop goes on.
C13_TargetNotFound ==
    [][\A c \in Conns : Served(c) =>
          \A f \in UnregisteredMessages :
              Receive(c, f)
              => /\ sent'[c] = <<TargetNotFound>>
                 /\ raised'[c] = "none"
                 /\ pc'[c] = "idle"]_vars

C13_Witness ==
    \E c \in Conns :
        /\ pc[c] = "idle"
        /\ sent[c] = <<TargetNotFound>>
        /\ raised[c] = "none"

\* C14: the receive loop of a connection ends only on a disconnect: no
\* received frame makes an exception escape it.
C14_LoopSurvives ==
    [][\A c \in Conns : pc[c] = "idle" => pc'[c] \in {"idle", "closed"}]_vars

\* C15: a frame that does not decode to a JSON object (a binary frame, text
\* that is not JSON, a JSON value that is not an object) is answered with
\* {"error": "Invalid data."} and the loop goes on.
C15_UndecodableFrame ==
    [][\A c \in Conns : Served(c) =>
          \A f \in NonObjectFrames :
              Receive(c, f) => (sent'[c] = <<InvalidData>> /\ pc'[c] = "idle")]_vars

\* The binary frame of the garbled-data test has been answered.
C15_Witness ==
    \E c \in Conns : pc[c] = "idle" /\ sent[c] = <<InvalidData>>

\* C16: the message {"target": "ping"} is answered with exactly
\* {"target": "pong"}.
C16_PingPong ==
    [][\A c \in Conns : Served(c) =>
          \A f \in BarePing : Receive(c, f) => sent'[c] = <<Pong>>]_vars

\* C17: the empty object is answered with {"error": "No data provided."}
\* and the loop goes on.
C17_EmptyObject ==
    [][\A c \in Conns : Served(c) =>
          \A f \in EmptyObject :
              Receive(c, f)
              => /\ sent'[c] = <<NoDataProvided>>
                 /\ raised'[c] = "none"
                 /\ pc'[c] = "idle"]_vars

C17_Witness ==
    \E c \in Conns : pc[c] = "idle" /\ sent[c] = <<NoDataProvided>>

\* C18: a non-empty object whose target is missing, null or not a string is
\* answered with {"error": "No target provided or target invalid."} and
\* nothing is dispatched.
C18_TargetInvalid ==
    [][\A c \in Conns : Served(c) =>
          \A f \in TargetInvalidObjects :
              Receive(c, f)
              => /\ sent'[c] = <<NoTarget>>
                 /\ raised'[c] = "none"
                 /\ pc'[c] = "idle"]_vars

C18_Witness ==
    \E c \in Conns : pc[c] = "idle" /\ sent[c] = <<NoTarget>> /\ raised[c] = "none"

\* C19: a message whose target is the empty string is answered with
\* {"error": "No target provided or target invalid."}.
C19_EmptyTarget ==
    [][\A c \in Conns : Served(c) =>
          \A f \in EmptyTargetObjects :
              Receive(c, f) => sent'[c] = <<NoTarget>>]_vars

EnvelopeMessages ==
    {f \in InFrames :
        /\ f.json = "object"
        /\ f.obj.target.kind = "str"
        /\ f.obj.target.str # "ping"
        /\ f.obj.data = Dict}

\* C21: a message with a string target other than "ping" and an object
\* "data" whose "action" is missing, null or not a string is answered with
\* {"error": "No action provided or action invalid."}; with a string action
\* and an inner "data" that is missing, null or not an object it is answered
\* with {"error": "No data provided or data invalid."}; neither is
\* dispatched and the loop goes on.
C21_InnerEnvelope ==
    [][\A c \in Conns : Served(c) =>
          \A f \in EnvelopeMessages :
              Receive(c, f)
              => /\ f.obj.action.kind # "str" => sent'[c] = <<NoAction>>
                 /\ (f.obj.action.kind = "str" /\ f.obj.inner # Dict)
                       => sent'[c] = <<NoDataInvalid>>
                 /\ (f.obj.action.kind # "str" \/ f.obj.inner # Dict)
                       => (raised'[c] = "none" /\ pc'[c] = "idle")]_vars

C21_Witness ==
    \E c \in Conns : pc[c] = "idle" /\ sent[c] = <<NoAction>> /\ raised[c] = "none"

\* C22: while the handler of a connection awaits the challenge response, no
\* further message of that connection is dispatched, every other connection
\* whose loop awaits a message can have any message dispatched, and such a
\* dispatch leaves the waiting handler as it is.
C22_SingleFlight ==
    [][\A c \in Conns : pc[c] = "waiting" =>
          /\ \A a \in AdminActions : ~HandleMessage(c, a)
          /\ \A d \in Conns \ {c} : pc[d] = "idle" =>
                \A a \in AdminActions :
                    /\ ENABLED HandleMessage(d, a)
                    /\ HandleMessage(d, a)
                         => /\ pc'[c] = "waiting"
                            /\ token'[c] = token[c]
                            /\ sent'[c] = sent[c]]_vars

\* One handler awaits the challenge response and another connection has been
\* authenticated and answered.
C22_Witness ==
    \E c, d \in Conns :
        /\ pc[c] = "waiting"
        /\ pc[d] = "idle"
        /\ d \in DOMAIN admins
        /\ sent[d] = <<Challenge, Authenticated>>

\* The step is one of the admin handler of connection c.
Handled(c) ==
    /\ pc[c] \in {"idle", "deleting"}
    /\ <<pc[c], sent[c]>> # <<pc'[c], sent'[c]>>

\* C23: delete_user with the id of no existing user is answered with
\* {"error": "User does not exist."} and leaves the table as it is; with the
\* id of an existing user it goes on to the DELETE statement, after which
\* the user is not in the table and the reply is
\* {"action": "delete_user", "data": {"success": true}}.
C23_DeleteUser ==
    [][\A c \in Conns : Handled(c) =>
          /\ \A in \in DeleteInputs :
                (DeleteUserStart(c, in) /\ in.kind = "uuid")
                => IF in.id \in users
                   THEN pc'[c] = "deleting" /\ deleting'[c] = in.id
                   ELSE /\ sent'[c] = <<UserDoesNotExistError>>
                        /\ users' = users
                        /\ pc'[c] = "idle"
          /\ DeleteUserFinish(c)
             => /\ sent'[c] = <<DeleteSuccess>>
                /\ deleting[c] \notin users'
                /\ pc'[c] = "idle"]_vars

\* A user has been deleted and then found missing.
C23_Witness ==
    \E c \in Conns, u \in UserIds :
        /\ sent[c] = <<UserDoesNotExistError>>
        /\ u \notin users
        /\ ret = NoCall
        /\ pc[c] = "idle"

\* C24: what get_users and delete_user answer and do to the table is the
\* same whether or not the connection has an entry in the admin map.
C24_NoAuthCheck ==
    [][\A c \in Conns : Handled(c) =>
          /\ \A in \in GetUsersInputs :
                GetUsers(c, in)
                => \A adm \in {Empty, c :> AdminExpiry(now)} :
                       /\ sent'[c] = GetUsersReply(adm, c, users, in)
                       /\ users' = users
          /\ \A in \in DeleteInputs :
                DeleteUserStart(c, in)
                => \A adm \in {Empty, c :> AdminExpiry(now)} :
                       /\ sent'[c] = DeleteRefusal(adm, c, users, in)
                       /\ users' = users
          /\ DeleteUserFinish(c)
             => users' = users \ {deleting[c]}]_vars

\* A connection that never authenticated has been sent a page of users.
C24_Witness ==
    \E c \in Conns :
        /\ c \notin DOMAIN admins
        /\ users # {}
        /\ sent[c] = <<UsersFrame(GetPage(users, 0, 1))>>

\* C25: a get_users message whose page is not an integer >= 0 or whose
\* page_size is not an integer > 0, and a delete_user message without a
\* well-formed id, are answered with {"error": "Invalid data."}; nothing is
\* asked of the database and the table is unchanged.
C25_InputValidation ==
    [][\A c \in Conns : Handled(c) =>
          /\ \A in \in GetUsersInputs :
                (/\ GetUsers(c, in)
                 /\ ~(/\ in.page.kind = "int" /\ in.page.n >= 0
                      /\ in.page_size.kind = "int" /\ in.page_size.n > 0))
                => (sent'[c] = <<InvalidData>> /\ users' = users)
          /\ \A in \in DeleteInputs :
                (DeleteUserStart(c, in) /\ in.kind # "uuid")
                => /\ sent'[c] = <<InvalidData>>
                   /\ users' = users
                   /\ pc'[c] = "idle"
                   /\ deleting'[c] = 0]_vars

C25_Witness ==
    \E c \in Conns :
        pc[c] = "idle" /\ sent[c] = <<InvalidData>> /\ deleting[c] = 0

\* The actions the match statement of handle_message names.
KnownActions == {"auth", "logoff", "get_users", "get_user", "delete_user"}

\* C26: an admin message whose action is none of auth, logoff, get_users,
\* get_user, delete_user is answered with exactly {"error": "Invalid
\* action."} and changes neither the admin map nor the failure map.
C26_InvalidAction ==
    [][\A c \in Conns : Handled(c) =>
          \A a \in AdminActions \ KnownActions :
              HandleMessage(c, a)
              => /\ sent'[c] = <<InvalidActionError>>
                 /\ admins' = admins
                 /\ waitlist' = waitlist
                 /\ pc'[c] = "idle"]_vars

\* An authenticated connection has been told its action is invalid and is
\* still authenticated.
C26_Witness ==
    \E c \in Conns :
        /\ c \in DOMAIN admins
        /\ pc[c] = "idle"
        /\ sent[c] = <<InvalidActionError>>

\* The rows of the verification code table that belong to user u.
CodesOf(tbl, u) == {row \in tbl : row.user = u}

\* C27: issuing a code for a user who already has one returns and leaves
\* exactly one row for that user, holding the new code; and no user ever has
\* more than one row.
C27_OneLiveCode ==
    [][/\ \A u \in UserIds : Cardinality(CodesOf(codes', u)) <= 1
       /\ \A u \in UserIds, code \in CodeStrings :
             (MakeVerificationCode(u, code) /\ CodesOf(codes, u) # {})
             => /\ ret' = Returned("make_verification_code", "code", code)
                /\ CodesOf(codes', u)
                     = {[user |-> u, code |-> code,
                         expires |-> now + verification_expires]}]_vars

\* The rows whose code is the one in the path.
Resolves(tbl, seg) == {row \in tbl : seg.text = "code" /\ row.code = seg.code}

\* C28: GET /users/verify/{code} gives 404 when no row has the code; 403
\* when a row has it and its expiry is in the past, and the row is deleted;
\* the user's public projection (200) when a row has it and is not expired.
C28_VerifyEndpoint ==
    [][\A seg \in PathSegments :
          (VerifyUser(seg) /\ seg.text = "code")
          => IF Resolves(codes, seg) = {}
             THEN ret'.n = 404
             ELSE IF \A row \in Resolves(codes, seg) : row.expires < now
                  THEN ret'.n = 403 /\ Resolves(codes', seg) = {}
                  ELSE ret'.n = 200]_vars

\* The fake-code test: a code no row holds is answered with 404.
C28_Witness ==
    /\ ret = Status("GET /users/verify", 404)
    /\ codes = {}

\* C29: when the token exists and the email resolves to a user,
\* session_verify returns that user if the token's owner is that user and
\* returns None if it is not.
C29_SessionVerifyIdentity ==
    [][\A email \in Emails, id \in TokenIds :
          (/\ SessionVerify(email, id)
           /\ ExistsToken(tokens, id)
           /\ email \in users)
          => IF TokenOwner(tokens, id) = email
             THEN ret' = Returned("session_verify", "user", email)
             ELSE ret' = ReturnedNone("session_verify")]_vars

\* C30: when no token has the id, or no user has the email, session_verify
\* returns None and raises nothing.
C30_SessionVerifyNoRaise ==
    [][\A email \in Emails, id \in TokenIds :
          (/\ SessionVerify(email, id)
           /\ (~ExistsToken(tokens, id) \/ email \notin users))
          => ret' = ReturnedNone("session_verify")]_vars

\* The half of C30 the code has: an unknown token id gives None.
C30_Witness ==
    /\ ret = ReturnedNone("session_verify")
    /\ tokens # {}

\* C31: session_new with an email no user has raises the not-found error
\* and makes no token; with a user's email and a wrong password it raises
\* the password-incorrect error and makes no token; with the right password
\* it makes exactly one token, owned by that user, and returns it.
C31_Login ==
    [][\A email \in Emails, correct \in BOOLEAN :
          SessionNew(email, correct)
          => IF email \notin users
             THEN ret' = Raised("session_new", "UserDoesNotExist") /\ tokens' = tokens
             ELSE IF ~correct
             THEN /\ ret' = Raised("session_new", "PasswordIncorrectException")
                  /\ tokens' = tokens
             ELSE /\ Cardinality(tokens' \ tokens) = 1
                  /\ \A t \in tokens' \ tokens :
                        t.user = email /\ ret' = Returned("session_new", "token", t.id)]_vars

\* The part of C31 the code has: an unknown email raises UserDoesNotExist.
C31_Witness == ret = Raised("session_new", "UserDoesNotExist")

\* C32: a token issued without a type is stored with type user (1), and
\* every stored token has one of the types user (1) and bot (2).
C32_TokenType ==
    [][/\ \A t \in tokens' : t.type \in TokenTypes
       /\ \A u \in UserIds :
             NewToken(u) => \A t \in tokens' \ tokens : t.type = TokenTypeUser]_vars

\* C33: a connection comes to have an admin entry only by a response equal to
\* the digest of the token of the attempt that response ends, and an attempt
\* ended by any other response leaves the connection without an entry.
C33_AuthSoundness ==
    [][\A c \in Conns :
          /\ (c \in DOMAIN admins' /\ c \notin DOMAIN admins)
             => \E r \in Responses : AuthRespond(c, r) /\ r = Md5(token[c])
          /\ \A r \in Responses :
                (AuthRespond(c, r) /\ r # Md5(token[c])) => c \notin DOMAIN admins']_vars

\* The entry a dictionary holds under a key, as a sequence of at most one.
Entry(d, k) == IF k \in DOMAIN d THEN <<d[k]>> ELSE <<>>

\* A step of the handler of connection a.
StepOf(a) ==
    \/ \E act \in AdminActions : HandleMessage(a, act)
    \/ \E r \in Responses : AuthRespond(a, r)
    \/ AuthRespondText(a)
    \/ AuthDisconnect(a)
    \/ Disconnect(a)

ObjectFrames == {f \in InFrames : f.json = "object"}

\* The checks of the loop in their order: whether the object stops at each.
Checks(o) ==
    << o = NoObject,
       o.target.kind # "str",
       o.data.kind # "dict",
       o.target = Str("ping"),
       o.action.kind # "str",
       o.inner.kind # "dict" >>

\* The frame an object that stops at each check is answered with.
CheckReplies ==
    <<NoDataProvided, NoTarget, NoDataInvalid, Pong, NoAction, NoDataInvalid>>

\* The object frames whose first stop is the check at place i.
FirstStop ==
    [i \in DOMAIN CheckReplies |->
        {f \in ObjectFrames :
            /\ Checks(f.obj)[i]
            /\ \A j \in 1..(i - 1) : ~Checks(f.obj)[j]}]

PingWithoutData ==
    {f \in ObjectFrames : f.obj.target = Str("ping") /\ f.obj.data # Dict}

C36_Terminates ==
    [][\A u \in UserIds, code \in CodeStrings :
          MakeVerificationCode(u, code)
          => ret' = Returned("make_verification_code", "code", code)]_vars

\* C37: a text frame that arrives while the handler of a connection awaits
\* the challenge response is taken by the handler as the response, no routed
\* reply is sent for it, the attempt ends in the failure frame or silently,
\* and the receive loop of the connection goes on.
C37_TextFrameAsResponse ==
    [][\A c \in Conns : AuthRespondText(c) =>
          /\ sent'[c] \in {sent[c], Append(sent[c], AuthFailed)}
          /\ raised'[c] = "none"
          /\ pc'[c] = "idle"]_vars

\* The challenge went out, a text frame came back and the KeyError ended the
\* loop.
C37_Witness ==
    \E c \in Conns :
        /\ pc[c] = "crashed"
        /\ raised[c] = "KeyError"
        /\ sent[c] = <<Challenge>>

\* C38: when the receive loop of a connection ends on a disconnect the
\* connection is closed, nothing more is sent on it, and neither the admin
\* map nor the failure map keeps an entry under it.
C38_Teardown ==
    [][\A c \in Conns :
          /\ (Disconnect(c) \/ AuthDisconnect(c))
             => /\ pc'[c] = "closed"
                /\ sent'[c] = sent[c]
                /\ c \notin DOMAIN admins'
                /\ c \notin DOMAIN waitlist'
          /\ (pc[c] = "closed" /\ pc'[c] = "closed") => sent'[c] = sent[c]]_vars

\* A closed connection that still has its admin entry.
C38_Witness == \E c \in Conns : pc[c] = "closed" /\ c \in DOMAIN admins

\* The times a timestamp is compared with.
GateTimes == 0..(MaxTime + fail_lock_time)

\* C39: every failure record is a non-empty sequence of strictly increasing
\* timestamps, its last element is its greatest, and the gate, which reads
\* the last one, refuses at a time exactly when some timestamp of the record
\* is later than that time.
C39_RecordOrdered ==
    \A c \in DOMAIN waitlist :
        /\ Len(waitlist[c]) >= 1
        /\ Increasing(waitlist[c])
        /\ \A i \in 1..Len(waitlist[c]) : waitlist[c][i] <= Last(waitlist[c])
        /\ \A t \in GateTimes :
              MustWait(waitlist, c, t)
              <=> \E i \in 1..Len(waitlist[c]) : t < waitlist[c][i]

\* A record that a failure at the lock stage has grown by one timestamp.
C39_Witness ==
    \E c \in DOMAIN waitlist :
        /\ Len(waitlist[c]) > MaxRecord
        /\ Last(waitlist[c]) = now + fail_lock_time
        /\ sent[c] # <<>>
        /\ Last(sent[c]) = AuthFailed

\* C40: of the calls that delete the same user at the same time only the one
\* whose DELETE removes the row is answered with the success frame.
C40_ConcurrentDelete ==
    [][\A c \in Conns : DeleteUserFinish(c) => deleting[c] \in users]_vars

\* Two connections have both passed the existence check for the same user
\* and neither has yet run its DELETE.
C40_Witness ==
    \E c \in Conns, d \in Conns :
        /\ c # d
        /\ pc[c] = "deleting" /\ pc[d] = "deleting"
        /\ deleting[c] = deleting[d]
====
